---- MODULE Spec2Model ----
(***************************************************************************)
(* A model of src/src/mm.c: a segregated-fits allocator over a region      *)
(* obtained from the memlib region provider (mem_sbrk / mem_heap_hi).      *)
(*                                                                         *)
(* Memory is modelled word by word (4-byte words, little endian, LP64):    *)
(* a boundary tag is one word, a list pointer is two words (low, high).    *)
(* size_t values are represented by their two's-complement signed          *)
(* representative, so SIZE_MAX is -1 and arithmetic modulo 2^64 on values  *)
(* near 0 or near 2^64 is ordinary integer arithmetic on representatives.  *)
(* The provider's region is assumed to lie below 2^32, so the high word of *)
(* every in-heap address is 0.                                             *)
(***************************************************************************)
EXTENDS Integers, Sequences, FiniteSets, TLC

-----------------------------------------------------------------------------
(* Bounds of the model *)

\* 8-byte units the region provider can hand out after mm_init's 80 bytes
HeapUnits == 4
\* addressable 8-byte units past the largest region (the allocator writes there)
SlackUnits == 4
\* calls the caller makes in the bounded scenarios
MaxCalls == 6

-----------------------------------------------------------------------------
(* Constants of mm.c *)

WSIZE == 4
DSIZE == 8
ALIGNMENT == 8
MIN_BLOCK_SIZE == 2 * DSIZE
SEG_LIST_COUNT == 8
\* sizeof(size_t) == sizeof(void*) == 8: a list pointer fills the 8 payload
\* bytes of a 16-byte block (mm.c lines 5-6)
SIZEOF_SIZE_T == 8
NULL == 0
\* (size_t)-1
SIZE_MAX == -1

\* unsigned comparison a < b of two size_t representatives
ULT(a, b) == IF (a >= 0) = (b >= 0) THEN a < b ELSE b < 0

ALIGN(size) == LET s == size + (ALIGNMENT - 1) IN s - (s % 8)

SIZE_T_SIZE == ALIGN(SIZEOF_SIZE_T)

\* size | alloc, for alloc in {0, 1}
PACK(size, alloc) == IF size % 2 = 1 THEN size ELSE size + alloc

\* the size and allocated fields of a tag word
SizeOf(w) == w - (w % 8)
AllocOf(w) == w % 2

-----------------------------------------------------------------------------
(* The region provider (memlib): a fixed array handed out by a moving break *)

\* first byte of the provider's array, 8-byte aligned
mem_start_brk == DSIZE
\* the end of a provider array with room for u units after mm_init
MaxAddr(u) == mem_start_brk + 80 + DSIZE * u
\* the largest region of any scenario
TopUnits == HeapUnits + 3

Addrs == {a \in mem_start_brk .. (MaxAddr(TopUnits + SlackUnits) - 1) : a % WSIZE = 0}

\* what a word the program never wrote may hold
UninitWords == {0, 1}

\* the list table and the first payload of the heap, as mm_init leaves them
seg_lists == mem_start_brk
seg_lists_size == SIZE_T_SIZE * SEG_LIST_COUNT
mem_hp == seg_lists + seg_lists_size + DSIZE

\* a heap value: memory, the provider's break and limit, mm.c's mem_bp, and
\* whether the process is still running ("ok"), touched unmapped memory
\* ("crashed") or walks a cyclic list for ever ("hung")
MkHeap(m, brk, max, bp, st) ==
  [mem |-> m, brk |-> brk, max |-> max, bp |-> bp, st |-> st]

\* mem_sbrk(incr): <<new heap, old break>> or <<heap, -1>> when exhausted
mem_sbrk(h, incr) ==
  IF incr < 0 \/ h.brk + incr > h.max
  THEN <<h, -1>>
  ELSE <<[h EXCEPT !.brk = h.brk + incr], h.brk>>

\* mem_heap_hi(): address of the last byte of the region
mem_heap_hi(h) == h.brk - 1

-----------------------------------------------------------------------------
(* Word and pointer access *)

GET(h, p) == IF p \in Addrs THEN h.mem[p] ELSE 0

PUT(h, p, val) ==
  IF h.st # "ok" THEN h
  ELSE IF p \in Addrs THEN [h EXCEPT !.mem[p] = val]
  ELSE [h EXCEPT !.st = "crashed"]

\* a pointer value is <<low word, high word>>
NULLP == <<0, 0>>
Ptr(a) == <<a, 0>>

GET_PTR_ADDR(h, p) == <<GET(h, p), GET(h, p + WSIZE)>>
PUT_PTR_ADDR(h, p, val) == PUT(PUT(h, p, val[1]), p + WSIZE, val[2])

GET_SIZE(h, p) == SizeOf(GET(h, p))
GET_ALLOC(h, p) == AllocOf(GET(h, p))

GET_HEADER(p) == p - WSIZE
GET_FOOTER(h, p) == p + GET_SIZE(h, GET_HEADER(p)) - DSIZE
GET_NEXT(h, p) == p + GET_SIZE(h, p - WSIZE)
GET_PREV(h, p) == p - GET_SIZE(h, p - DSIZE)
GET_NEXT_FREE(h, p) == GET_PTR_ADDR(h, p)

INSIDE_HEAP(h, j) == j[2] = 0 /\ j[1] >= mem_hp /\ j[1] < h.bp

\* more steps than any acyclic list has entries
MaxWalk == Cardinality(Addrs)

-----------------------------------------------------------------------------
(* mm.c *)

\* PUT( GET_FOOTER( p ), val )
PUT_FOOTER(h, p, val) == PUT(h, GET_FOOTER(h, p), val)

\* mem_bp = mem_heap_hi()
SET_BP(h) == [h EXCEPT !.bp = mem_heap_hi(h)]

\* mm_init's loop: PUT (one word) of 0 into each table slot from i on
RECURSIVE init_table(_, _)
init_table(h, i) ==
  IF i = SEG_LIST_COUNT THEN h
  ELSE init_table(PUT(h, seg_lists + SIZE_T_SIZE * i, 0), i + 1)

\* a fresh provider whose words all hold g
Fresh(g, max) == MkHeap([a \in Addrs |-> g], mem_start_brk, max, 0, "ok")

\* mm_init on a fresh provider: mem_sbrk of the table plus one minimal block,
\* the table's slots, the allocated boundary block at mem_hp, mem_bp
mm_init(g, max) ==
  SET_BP(PUT_FOOTER(PUT(init_table(mem_sbrk(Fresh(g, max),
                                            ALIGN(seg_lists_size) + MIN_BLOCK_SIZE)[1], 0),
                        GET_HEADER(mem_hp), PACK(MIN_BLOCK_SIZE, 1)),
                    mem_hp, PACK(MIN_BLOCK_SIZE, 1)))

place(h, p, size) ==
  IF p = NULL \/ size = 0 THEN h
  ELSE PUT_FOOTER(PUT(h, GET_HEADER(p), PACK(size, 1)), p, PACK(size, 1))

\* int class = size/64: the quotient of a size_t near 2^64 converts to a
\* negative int
get_size_class(size) ==
  LET class == IF size < 0 THEN 0 - ((63 - size) \div 64) ELSE size \div 64
  IN IF class >= SEG_LIST_COUNT THEN SEG_LIST_COUNT - 1
     ELSE IF class < 0 THEN 0
     ELSE class

\* the value get_fit cannot return: it never returns
HANG == -1

\* get_fit's inner loop over one list, from entry j
RECURSIVE get_fit_list(_, _, _, _)
get_fit_list(h, j, size, fuel) ==
  IF ~(INSIDE_HEAP(h, j) /\ j # NULLP) THEN NULL
  ELSE IF fuel = 0 THEN HANG
  ELSE IF GET_ALLOC(h, GET_HEADER(j[1])) = 0
          /\ ~ULT(GET_SIZE(h, GET_HEADER(j[1])), size)
       THEN j[1]
       ELSE get_fit_list(h, GET_NEXT_FREE(h, j[1]), size, fuel - 1)

\* get_fit's outer loop, from class i
RECURSIVE get_fit_from(_, _, _)
get_fit_from(h, size, i) ==
  IF ~(i < SEG_LIST_COUNT) THEN NULL
  ELSE LET r == get_fit_list(h, GET_PTR_ADDR(h, seg_lists + SIZEOF_SIZE_T * i),
                             size, MaxWalk)
       IN IF r # NULL THEN r ELSE get_fit_from(h, size, i + 1)

\* get_fit that starts one class too high
get_fit_above(h, size) == get_fit_from(h, size, get_size_class(size) + 1)

get_fit(h, size) == get_fit_from(h, size, get_size_class(size))

\* seg_list_remove's loop: j the entry looked at, k where the pointer to it is
RECURSIVE seg_list_remove_loop(_, _, _, _, _)
seg_list_remove_loop(h, p, j, k, fuel) ==
  IF ~(INSIDE_HEAP(h, j) /\ j # NULLP) THEN h
  ELSE IF fuel = 0 THEN [h EXCEPT !.st = "hung"]
  ELSE IF Ptr(p) = j
       THEN LET nx == GET_NEXT_FREE(h, j[1])
                h1 == IF INSIDE_HEAP(h, nx) /\ nx # NULLP
                      THEN PUT_PTR_ADDR(h, k, nx)
                      ELSE PUT_PTR_ADDR(h, k, NULLP)
            IN PUT_PTR_ADDR(h1, p, NULLP)
       ELSE seg_list_remove_loop(h, p, GET_NEXT_FREE(h, j[1]), j[1], fuel - 1)

seg_list_remove(h, p) ==
  IF h.st # "ok" THEN h
  ELSE LET class_size == get_size_class(GET_SIZE(h, GET_HEADER(p)))
       IN seg_list_remove_loop(h, p,
             GET_PTR_ADDR(h, seg_lists + SIZEOF_SIZE_T * class_size),
             seg_lists + SIZEOF_SIZE_T * class_size, MaxWalk)

seg_list_add(h, p) ==
  IF p = NULL \/ h.st # "ok" THEN h
  ELSE LET class_size == get_size_class(GET_SIZE(h, GET_HEADER(p)))
           slot == seg_lists + class_size * SIZE_T_SIZE
           head == GET_PTR_ADDR(h, slot)
           h1 == IF head # NULLP /\ head # Ptr(p)
                 THEN PUT_PTR_ADDR(h, p, head)
                 ELSE PUT_PTR_ADDR(h, p, NULLP)
       IN PUT_PTR_ADDR(h1, slot, Ptr(p))

\* grow_heap that writes the header of the new block before it looks at what
\* mem_sbrk returned
grow_heap_at_unchecked(r, size) ==
  IF r[2] = -1
  THEN <<PUT(r[1], GET_HEADER(r[1].brk + DSIZE), PACK(size, 0)), NULL>>
  ELSE <<SET_BP(PUT_FOOTER(PUT(r[1], GET_HEADER(r[2] + DSIZE), PACK(size, 0)),
                           r[2] + DSIZE, PACK(size, 0))),
         r[2] + DSIZE>>

\* grow_heap once mem_sbrk has returned r = <<heap, old break>>
grow_heap_at(r, size) ==
  IF r[2] = -1 THEN <<r[1], NULL>>
  ELSE <<SET_BP(PUT_FOOTER(PUT(r[1], GET_HEADER(r[2] + DSIZE), PACK(size, 0)),
                           r[2] + DSIZE, PACK(size, 0))),
         r[2] + DSIZE>>

\* <<heap, pointer>>
grow_heap(h, size) ==
  IF size = 0 THEN <<h, NULL>>
  ELSE grow_heap_at(mem_sbrk(h, size), size)

\* coalesce's prev_elig and next_elig
prev_elig(h, p) ==
  INSIDE_HEAP(h, Ptr(GET_PREV(h, p))) /\ GET_ALLOC(h, GET_HEADER(GET_PREV(h, p))) = 0
next_elig(h, p) ==
  INSIDE_HEAP(h, Ptr(GET_NEXT(h, p))) /\ GET_ALLOC(h, GET_HEADER(GET_NEXT(h, p))) = 0

\* coalesce without its seg_list_add: the merged block is in no list
coalesce_tags_lost(h, start_p, free_size) ==
  PUT_FOOTER(PUT(h, GET_HEADER(start_p), PACK(free_size, 0)), start_p, PACK(free_size, 0))

\* coalesce's end: the tags of the merged block, and its place in the table
coalesce_tags(h, start_p, free_size) ==
  seg_list_add(PUT_FOOTER(PUT(h, GET_HEADER(start_p), PACK(free_size, 0)),
                          start_p, PACK(free_size, 0)),
               start_p)

\* the heap on which coalesce writes the merged block's tags, h1 the heap
\* after its if( prev_elig ): the neighbours it merges have left their lists
coalesce_unlinked_next(h1, p, ne) ==
  IF ne THEN seg_list_remove(h1, GET_NEXT(h1, p)) ELSE h1
coalesce_unlinked(h, p) ==
  coalesce_unlinked_next(IF prev_elig(h, p) THEN seg_list_remove(h, GET_PREV(h, p)) ELSE h,
                         p, next_elig(h, p))

\* coalesce's if( next_elig )
coalesce_next(h, p, ne, start_p, free_size) ==
  coalesce_tags(coalesce_unlinked_next(h, p, ne), start_p,
                IF ne THEN free_size + GET_SIZE(h, GET_HEADER(GET_NEXT(h, p)))
                ELSE free_size)

\* coalesce's if( prev_elig ), h1 the heap after its seg_list_remove
coalesce_prev(h, h1, p, ne, size) ==
  coalesce_next(h1, p, ne, GET_PREV(h1, p),
                size + GET_SIZE(h, GET_HEADER(GET_PREV(h, p))))

coalesce(h, p, size) ==
  IF p = NULL \/ size = 0 THEN h
  ELSE IF prev_elig(h, p)
       THEN coalesce_prev(h, seg_list_remove(h, GET_PREV(h, p)), p, next_elig(h, p), size)
       ELSE coalesce_next(h, p, next_elig(h, p), p, size)

\* the result of a call: the heap after it, the pointer returned, the branch taken
Ret(h, ret, path) == [h |-> h, ret |-> ret, path |-> path]

\* mm_malloc's split: h the heap after place, new_ptr the remainder
malloc_split(h, fit_ptr, new_ptr, split_remainder) ==
  Ret(seg_list_add(PUT_FOOTER(PUT(h, GET_HEADER(new_ptr), PACK(split_remainder, 0)),
                              new_ptr, PACK(split_remainder, 0)),
                   new_ptr),
      fit_ptr, "split")

\* new_ptr = GET_SIZE( GET_HEADER( fit_ptr ) ) + fit_ptr, h the heap after place
malloc_placed(h, fit_ptr, split_remainder) ==
  malloc_split(h, fit_ptr, GET_SIZE(h, GET_HEADER(fit_ptr)) + fit_ptr, split_remainder)

\* the heap on which mm_malloc calls place for the block get_fit has found:
\* after seg_list_remove when it splits, before it when it does not
malloc_fit_tagged(h, fit_ptr, split_remainder) ==
  IF ~ULT(split_remainder, MIN_BLOCK_SIZE) THEN seg_list_remove(h, fit_ptr) ELSE h

\* mm_malloc with the block get_fit has found
malloc_fit(h, fit_ptr, block_size, split_remainder) ==
  IF ~ULT(split_remainder, MIN_BLOCK_SIZE)
  THEN malloc_placed(place(malloc_fit_tagged(h, fit_ptr, split_remainder),
                           fit_ptr, block_size),
                     fit_ptr, split_remainder)
  ELSE Ret(seg_list_remove(place(malloc_fit_tagged(h, fit_ptr, split_remainder),
                                 fit_ptr, GET_SIZE(h, GET_HEADER(fit_ptr))),
                           fit_ptr),
           fit_ptr, "whole")

\* mm_malloc with g = <<heap, pointer>>, what grow_heap has returned
malloc_grown(g, block_size) ==
  IF g[2] # NULL
  THEN Ret(place(g[1], g[2], block_size), g[2], "grow")
  ELSE Ret(g[1], NULL, "oom")

\* mm_malloc from get_fit's answer on
malloc_block(h, block_size, fit_ptr) ==
  IF fit_ptr = HANG THEN Ret([h EXCEPT !.st = "hung"], NULL, "hung")
  ELSE IF fit_ptr # NULL
  THEN malloc_fit(h, fit_ptr, block_size, GET_SIZE(h, GET_HEADER(fit_ptr)) - block_size)
  ELSE malloc_grown(grow_heap(h, block_size), block_size)

\* block_size = ALIGN( size + DSIZE ), raised to MIN_BLOCK_SIZE
block_size_of(size) ==
  IF ULT(ALIGN(size + DSIZE), MIN_BLOCK_SIZE)
  THEN ALIGN(size + MIN_BLOCK_SIZE - size)
  ELSE ALIGN(size + DSIZE)

malloc_sized(h, block_size) == malloc_block(h, block_size, get_fit(h, block_size))

\* mm_malloc without its size == 0 test
mm_malloc_any(h, size) == malloc_sized(h, block_size_of(size))

mm_malloc(h, size) ==
  IF size = 0 THEN Ret(h, NULL, "zero")
  ELSE malloc_sized(h, block_size_of(size))

mm_free(h, p) ==
  IF p = NULL THEN h
  ELSE coalesce(h, p, GET_SIZE(h, GET_HEADER(p)))


\* the copy cannot be represented: 2^32 - 8 bytes or more
TOO_BIG == -1

\* copySize = GET_SIZE(header) - DSIZE in unsigned int, then capped by size
copy_size(sz, size) ==
  IF sz >= DSIZE
  THEN (IF ULT(size, sz - DSIZE) THEN size ELSE sz - DSIZE)
  ELSE (IF size >= 0 THEN size ELSE TOO_BIG)

\* whether a copy of n bytes to or from p touches the word at a
InCopy(a, p, n) == a >= p /\ a < p + n

\* the low k bytes of word s over the high 4 - k bytes of word d
MixWord(d, s, k) ==
  LET b == IF k = 1 THEN 256 ELSE IF k = 2 THEN 65536 ELSE 16777216
  IN (d - (d % b)) + (s % b)

\* the last word a copy of n > 0 bytes to or from p touches
LastWord(p, n) == p + WSIZE * ((n - 1) \div WSIZE)

\* memcpy(dst, src, n): every source byte is read before the bytes that
\* overlap it are written
memcpy(h, dst, src, n) ==
  IF h.st # "ok" \/ n = 0 THEN h
  ELSE IF n = TOO_BIG \/ LastWord(dst, n) \notin Addrs \/ LastWord(src, n) \notin Addrs
  THEN [h EXCEPT !.st = "crashed"]
  ELSE LET full == n \div WSIZE
           k == n % WSIZE
       IN [h EXCEPT !.mem =
             [a \in Addrs |->
                IF InCopy(a, dst, n)
                THEN LET i == (a - dst) \div WSIZE
                     IN IF i < full THEN h.mem[src + WSIZE * i]
                        ELSE MixWord(h.mem[a], h.mem[src + WSIZE * i], k)
                ELSE h.mem[a]]]

\* mm_realloc that releases the old block also when mm_malloc has failed
realloc_into_released(m, ptr, size) ==
  IF m.ret = NULL THEN Ret(mm_free(m.h, ptr), NULL, "keep")
  ELSE Ret(SET_BP(mm_free(memcpy(m.h, m.ret, ptr,
                                 copy_size(GET_SIZE(m.h, GET_HEADER(ptr)), size)),
                          ptr)),
           m.ret, "move")

\* mm_realloc once mm_malloc has returned m
realloc_into(m, ptr, size) ==
  IF m.ret = NULL THEN Ret(m.h, NULL, "keep")
  ELSE Ret(SET_BP(mm_free(memcpy(m.h, m.ret, ptr,
                                 copy_size(GET_SIZE(m.h, GET_HEADER(ptr)), size)),
                          ptr)),
           m.ret, "move")

\* mm_realloc without its size == 0 test
mm_realloc_copy(h, ptr, size) ==
  IF ptr = NULL THEN mm_malloc(h, size)
  ELSE realloc_into(mm_malloc(h, size), ptr, size)

mm_realloc(h, ptr, size) ==
  IF ptr = NULL THEN mm_malloc(h, size)
  ELSE IF size = 0 THEN Ret(mm_free(h, ptr), NULL, "resize0")
  ELSE realloc_into(mm_malloc(h, size), ptr, size)

-----------------------------------------------------------------------------
(* The caller *)

\* request sizes the caller uses
Sizes == {8, 16, SIZE_MAX}
\* words the caller stores in its blocks
Patterns == {16}
\* the budget of a caller that may go on for ever
NoBudget == -1

VARIABLES
  mem,      \* the words of memory
  mem_brk,  \* the provider's break
  mem_max,  \* the end of the provider's array
  mem_bp,   \* mm.c's end of heap
  status,   \* "ok", "crashed" or "hung"
  live,     \* what the caller holds: [ptr, req: requested size, size: block size]
  call,     \* the last call and its result
  budget    \* calls the caller may still make, or NoBudget

vars == <<mem, mem_brk, mem_max, mem_bp, status, live, call, budget>>

Heap == MkHeap(mem, mem_brk, mem_max, mem_bp, status)

LivePtrs == {l.ptr : l \in live}

\* path: the branch the call took; size: the size asked for (for a free, the
\* size of the allocate that has just returned the pointer, if any); ptr: the
\* pointer returned (for a free, the block the freed one became part of);
\* again: an allocate that repeats the one whose block has just been freed
Call(path, size, ptr, again) ==
  [path |-> path, size |-> size, ptr |-> ptr, again |-> again]

\* the last two calls were p = allocate(size); release(p)
Again(size) == size # 0 /\ call.path = "free" /\ call.size = size

Lives(h, p, req) == [ptr |-> p, req |-> req, size |-> GET_SIZE(h, GET_HEADER(p))]

\* the blocks of l and o share a byte
Overlap(l, o) == l.ptr < o.ptr + o.size /\ o.ptr < l.ptr + l.size

\* the new block l lies on a block the caller still holds
Clash(ls, l) == \E o \in ls : Overlap(l, o)

\* the payload of the free block that the block at p becomes part of
FreedInto(h, p) ==
  IF GET_SIZE(h, GET_HEADER(p)) # 0 /\ prev_elig(h, p) THEN GET_PREV(h, p) ELSE p

\* the process goes on with heap h, or has stopped
Commit(h) ==
  /\ status' = h.st
  /\ IF h.st = "ok"
     THEN mem' = h.mem /\ mem_brk' = h.brk /\ mem_bp' = h.bp
     ELSE UNCHANGED <<mem, mem_brk, mem_bp>>
  /\ UNCHANGED mem_max

\* one more call of a running caller
Step ==
  /\ status = "ok"
  /\ budget # 0
  /\ budget' = IF budget = NoBudget THEN NoBudget ELSE budget - 1

\* after mm_init, on a provider with room for u more units, its memory holding
\* any of the words gs, before a caller with budget b
InitFor(u, gs, b) ==
  \E g \in gs :
    LET h == mm_init(g, MaxAddr(u))
    IN /\ mem = h.mem
       /\ mem_brk = h.brk
       /\ mem_max = h.max
       /\ mem_bp = h.bp
       /\ status = "ok"
       /\ live = {}
       /\ call = Call("init", 0, NULL, FALSE)
       /\ budget = b

\* the caller's blocks after a call that returned r for a request of size
\* bytes, having held the blocks ls besides
Held(ls, r, size) ==
  IF r.h.st = "ok" /\ r.ret # NULL THEN ls \cup {Lives(r.h, r.ret, size)} ELSE ls

Malloc(size) ==
  /\ Step
  /\ \E r \in {mm_malloc(Heap, size)} :
       /\ Commit(r.h)
       /\ live' = Held(live, r, size)
       /\ call' = Call(r.path, size, r.ret, Again(size))

Free(p) ==
  /\ Step
  /\ \E h \in {mm_free(Heap, p)} :
       /\ Commit(h)
       /\ live' = IF h.st = "ok" THEN {l \in live : l.ptr # p} ELSE live
       /\ call' = Call("free",
                       IF call.path \in {"split", "whole", "grow"} /\ call.ptr = p
                       THEN call.size ELSE 0,
                       FreedInto(Heap, p), FALSE)

Realloc(p, size) ==
  /\ Step
  /\ \E r \in {mm_realloc(Heap, p, size)} :
       /\ Commit(r.h)
       /\ live' = IF r.h.st # "ok" \/ r.path = "keep" THEN live
                  ELSE Held({o \in live : o.ptr # p}, r, size)
       /\ call' = Call(r.path, IF r.path = "resize0" THEN 0 ELSE size,
                       IF r.path = "resize0" THEN FreedInto(Heap, p) ELSE r.ret,
                       p = NULL /\ Again(size))

\* the caller stores word v over the bytes it asked for (as far as the block
\* it was given holds them)
Fill(l, v) ==
  /\ Step
  /\ LET cap == l.size - DSIZE
         n == IF ULT(l.req, cap) THEN l.req ELSE cap
         full == n \div WSIZE
         k == n % WSIZE
     IN mem' = [a \in Addrs |->
                  IF InCopy(a, l.ptr, n)
                  THEN IF (a - l.ptr) \div WSIZE < full THEN v
                       ELSE MixWord(mem[a], v, k)
                  ELSE mem[a]]
  /\ call' = Call("fill", 0, NULL, FALSE)
  /\ UNCHANGED <<mem_brk, mem_max, mem_bp, status, live>>

\* a caller that asks for the sizes S and stores the words P
NextFor(S, P) ==
  \/ \E size \in S \cup {0} : Malloc(size)
  \/ \E p \in LivePtrs : Free(p)
  \/ \E p \in LivePtrs \cup {NULL}, size \in S \cup {0} : Realloc(p, size)
  \/ \E l \in live, v \in P : Fill(l, v)

Init == InitFor(HeapUnits, UninitWords, NoBudget)
Next == NextFor(Sizes, Patterns)
Spec == Init /\ [][Next]_vars

\* the caller of the overflow runs: one more unit of room
InitOverflow == InitFor(HeapUnits + 1, UninitWords, NoBudget)
SpecOverflow == InitOverflow /\ [][Next]_vars

\* the caller of the overlap runs: three more units of room, memory that
\* holds zeros, MaxCalls calls
InitOverlap == InitFor(HeapUnits + 3, {0}, MaxCalls)
SpecOverlap == InitOverlap /\ [][Next]_vars

-----------------------------------------------------------------------------
(* The heap as its tags describe it *)

\* the headers of the blocks, from the sentinel's on, each found a block size
\* after the one before it, up to the provider's break
RECURSIVE Walk(_, _, _)
Walk(h, hdr, fuel) ==
  IF hdr >= h.brk \/ hdr \notin Addrs \/ fuel = 0 THEN <<>>
  ELSE LET sz == GET_SIZE(h, hdr)
       IN IF sz = 0 THEN <<hdr>>
          ELSE <<hdr>> \o Walk(h, hdr + sz, fuel - 1)

Blocks == Walk(Heap, GET_HEADER(mem_hp), MaxWalk)

\* the payload addresses of the blocks whose header says free
FreeBlocks == {Blocks[k] + WSIZE : k \in {n \in DOMAIN Blocks : AllocOf(mem[Blocks[n]]) = 0}}

\* the entries of the list that starts with pointer j, as get_fit follows it
RECURSIVE ListFrom(_, _, _)
ListFrom(h, j, fuel) ==
  IF j = NULLP \/ ~INSIDE_HEAP(h, j) \/ fuel = 0 THEN <<>>
  ELSE <<j[1]>> \o ListFrom(h, GET_NEXT_FREE(h, j[1]), fuel - 1)

\* the pointer at which that list ends
RECURSIVE ListEnd(_, _, _)
ListEnd(h, j, fuel) ==
  IF j = NULLP \/ ~INSIDE_HEAP(h, j) \/ fuel = 0 THEN j
  ELSE ListEnd(h, GET_NEXT_FREE(h, j[1]), fuel - 1)

Slot(i) == seg_lists + SIZE_T_SIZE * i
Entries(i) == ListFrom(Heap, GET_PTR_ADDR(Heap, Slot(i)), MaxWalk + 1)
End(i) == ListEnd(Heap, GET_PTR_ADDR(Heap, Slot(i)), MaxWalk + 1)
Classes == 0 .. (SEG_LIST_COUNT - 1)

\* the places (list, position) at which block b is an entry
Places(b) == {ik \in Classes \X (1 .. (MaxWalk + 1)) :
                ik[2] \in DOMAIN Entries(ik[1]) /\ Entries(ik[1])[ik[2]] = b}

-----------------------------------------------------------------------------
(* The claims *)

\* C2: every block the caller holds has a payload of at least the number of
\* bytes the caller asked for, whatever path served the request.
C2_Capacity ==
  status = "ok" => \A l \in live : ~ULT(l.size - DSIZE, l.req)

\* C3: between calls no two blocks that follow one another in the heap are
\* both free.
C3_NoAdjacentFree ==
  status = "ok" =>
    \A k \in DOMAIN Blocks :
      k + 1 \in DOMAIN Blocks =>
        ~(AllocOf(mem[Blocks[k]]) = 0 /\ AllocOf(mem[Blocks[k + 1]]) = 0)

\* C4: between calls the header and the footer of every block hold the same
\* size and the same allocated flag.
C4_TagsAgree ==
  status = "ok" =>
    \A k \in DOMAIN Blocks :
      LET hdr == Blocks[k]
          ftr == hdr + SizeOf(mem[hdr]) - WSIZE
      IN /\ SizeOf(mem[hdr]) >= DSIZE
         /\ ftr \in Addrs
         /\ SizeOf(mem[ftr]) = SizeOf(mem[hdr])
         /\ AllocOf(mem[ftr]) = AllocOf(mem[hdr])

\* C5: between calls the entries of the index lists are exactly the free
\* blocks of the heap, each of them once; no list holds an allocated block,
\* none has a cycle, and every list ends with the null pointer.
C5_IndexMembership ==
  status = "ok" =>
    /\ \A b \in FreeBlocks : Cardinality(Places(b)) = 1
    /\ \A i \in Classes :
         /\ \A k \in DOMAIN Entries(i) : Entries(i)[k] \in FreeBlocks
         /\ Len(Entries(i)) <= MaxWalk
         /\ End(i) = NULLP

\* C9: every pointer the caller holds is a multiple of 8; every block of the
\* heap has its payload at a multiple of 8 and a size that is a multiple of 8
\* and at least 16 (the provider's base is a multiple of 8).
C9_Alignment ==
  status = "ok" =>
    /\ \A l \in live : l.ptr % ALIGNMENT = 0
    /\ \A k \in DOMAIN Blocks :
         /\ (Blocks[k] + WSIZE) % ALIGNMENT = 0
         /\ SizeOf(mem[Blocks[k]]) % ALIGNMENT = 0
         /\ SizeOf(mem[Blocks[k]]) >= MIN_BLOCK_SIZE

\* the record of the block at p that the caller holds
LiveAt(p) == CHOOSE l \in live : l.ptr = p

\* C1: the blocks the caller holds are pairwise disjoint, and a block that
\* allocate or resize returns shares no byte with a block the caller still
\* holds.
C1_NoOverlap ==
  [][/\ status' = "ok" => \A l, o \in live' : l # o => ~Overlap(l, o)
     /\ \A size \in Sizes :
          Malloc(size) /\ status' = "ok" /\ call'.ptr # NULL
            => ~Clash(live, Lives(Heap', call'.ptr, size))
     /\ \A p \in LivePtrs, size \in Sizes :
          Realloc(p, size) /\ status' = "ok" /\ call'.path = "move"
            => ~Clash(live \ {LiveAt(p)}, Lives(Heap', call'.ptr, size))]_vars

\* whether the free block at b is large enough for a request of size bytes:
\* its size is at least align_up(size + 8, 8), which no block is when the
\* request is 2^63 bytes or more
Fits(b, size) == size > 0 /\ GET_SIZE(Heap, GET_HEADER(b)) >= ALIGN(size + DSIZE)

MinSize(n, m) == IF ULT(n, m) THEN n ELSE m

\* byte i of the payload at q after the step is byte i of the payload at p
\* before it, for every i < k
SameBytes(q, p, k) ==
  \A w \in 0 .. ((k + WSIZE - 1) \div WSIZE) - 1 :
    LET a == q + WSIZE * w
        b == p + WSIZE * w
        r == k - WSIZE * w
    IN /\ a \in Addrs
       /\ b \in Addrs
       /\ IF r >= WSIZE THEN mem'[a] = mem[b]
          ELSE mem'[a] % (256 ^ r) = mem[b] % (256 ^ r)

\* C8: for a pointer p that allocate(n) returned, a resize(p, m), m > 0, that
\* succeeds returns a pointer q # p whose first min(n, m) bytes are the first
\* min(n, m) bytes p had; afterwards the block of p is free and the block of
\* q is allocated.
C8_ResizeKeepsContent ==
  [][\A p \in LivePtrs, m \in Sizes :
       /\ Realloc(p, m)
       /\ status' = "ok"
       /\ call'.path = "move"
       /\ ~ULT(LiveAt(p).size - DSIZE, LiveAt(p).req)
       => LET q == call'.ptr
          IN /\ q # p
             /\ SameBytes(q, p, MinSize(LiveAt(p).req, m))
             /\ AllocOf(mem'[GET_HEADER(p)]) = 0
             /\ AllocOf(mem'[GET_HEADER(q)]) = 1]_vars

\* C10: an allocate(size), size > 0, that finds no fitting free block and is
\* refused by the provider returns null and leaves memory (every tag, every
\* list), the break and the end of the heap as they were; the allocator goes
\* on, and an allocate that free space could serve before can be served after.
C10_OutOfMemory ==
  [][\A size \in Sizes :
       Malloc(size) /\ call'.path = "oom"
         => /\ call'.ptr = NULL
            /\ status' = "ok"
            /\ UNCHANGED <<mem, mem_brk, mem_max, mem_bp, live>>
            /\ \A later \in Sizes :
                 mm_malloc(Heap, later).path \in {"split", "whole"}
                   => mm_malloc(Heap', later) = mm_malloc(Heap, later)]_vars

\* an allocate has just failed for want of memory
C10_Witness == status = "ok" /\ call.path = "oom" /\ call.size > 0 /\ live # {}

\* C11: allocate(0) returns null and changes nothing: no word of memory (no
\* tag, no slot, no next pointer), neither end of the heap, and the
\* provider's break stays where it was.
C11_AllocateZero ==
  [][Malloc(0) => /\ call'.ptr = NULL
                  /\ UNCHANGED <<mem, mem_brk, mem_max, mem_bp, status, live>>]_vars

\* allocate(0) has just returned, the caller holding blocks
C11_Witness == status = "ok" /\ call.path = "zero" /\ call.size = 0 /\ live # {}

\* C12: resize(p, 0), p not null, returns null and leaves the allocator in
\* the state release(p) leaves from the same state: the same memory (tags,
\* lists in their order) and the same ends of the heap.
C12_ResizeZeroIsRelease ==
  [][\A p \in LivePtrs :
       Realloc(p, 0)
         => /\ mm_realloc(Heap, p, 0).ret = NULL
            /\ status' = mm_free(Heap, p).st
            /\ status' = "ok" =>
                 /\ mem' = mm_free(Heap, p).mem
                 /\ mem_brk' = mm_free(Heap, p).brk
                 /\ mem_bp' = mm_free(Heap, p).bp]_vars

\* resize(p, 0) has just returned and the block it released is free
C12_Witness ==
  status = "ok" /\ call.path = "resize0" /\ call.ptr # NULL
  /\ GET_ALLOC(Heap, GET_HEADER(call.ptr)) = 0

\* the sequence seq without its members in S
RECURSIVE Without(_, _)
Without(seq, S) ==
  IF seq = <<>> THEN <<>>
  ELSE IF Head(seq) \in S THEN Without(Tail(seq), S)
  ELSE <<Head(seq)>> \o Without(Tail(seq), S)

\* the position in the heap of the block whose payload is at p (0: none)
BlockAt(p) ==
  IF \E k \in DOMAIN Blocks : Blocks[k] = GET_HEADER(p)
  THEN CHOOSE k \in DOMAIN Blocks : Blocks[k] = GET_HEADER(p)
  ELSE 0

\* the payloads of the free blocks right before and right after block k
FreeBefore(k) ==
  IF k > 1 /\ AllocOf(mem[Blocks[k - 1]]) = 0 THEN {Blocks[k - 1] + WSIZE} ELSE {}
FreeAfter(k) ==
  IF k + 1 \in DOMAIN Blocks /\ AllocOf(mem[Blocks[k + 1]]) = 0
  THEN {Blocks[k + 1] + WSIZE} ELSE {}

\* the sum of the sizes of the blocks whose payloads are in S
RECURSIVE SizeSum(_)
SizeSum(S) ==
  IF S = {} THEN 0
  ELSE LET b == CHOOSE x \in S : TRUE
       IN SizeOf(mem[GET_HEADER(b)]) + SizeSum(S \ {b})

\* the step has merged block k, at p, with its free neighbours into one free
\* block, the head of its class, and has left the other blocks as they were
Coalesced(p, k) ==
  LET nb == FreeBefore(k) \cup FreeAfter(k)
      M == IF FreeBefore(k) = {} THEN p ELSE Blocks[k - 1] + WSIZE
      size == SizeSum(nb \cup {p})
      ftr == GET_HEADER(M) + size - WSIZE
  IN /\ mem'[GET_HEADER(M)] = PACK(size, 0)
     /\ ftr \in Addrs /\ mem'[ftr] = PACK(size, 0)
     /\ <<mem'[Slot(get_size_class(size))], mem'[Slot(get_size_class(size)) + WSIZE]>> = Ptr(M)
     /\ \A i \in Classes :
          Without(Entries(i)', {M}) = Without(Entries(i), nb \cup {M})
     /\ \A j \in DOMAIN Blocks :
          Blocks[j] + WSIZE \notin nb \cup {p}
            => /\ mem'[Blocks[j]] = mem[Blocks[j]]
               /\ mem'[Blocks[j] + SizeOf(mem[Blocks[j]]) - WSIZE]
                    = mem[Blocks[j] + SizeOf(mem[Blocks[j]]) - WSIZE]
     /\ mem_brk' = mem_brk

InitSplit == InitFor(HeapUnits + 3, {0}, MaxCalls + 1)
SpecSplit == InitSplit /\ [][Next]_vars

\* the step has allocated the candidate at fit, of size S, for a block of size
\* b as mm_malloc does: split when S - b is a block, whole otherwise
Carved(fit, S, b) ==
  /\ status' = "ok"
  /\ call'.ptr = fit
  /\ \A i \in Classes : \A k \in DOMAIN Entries(i)' : Entries(i)'[k] # fit
  /\ IF S - b >= MIN_BLOCK_SIZE
     THEN /\ mem'[GET_HEADER(fit)] = PACK(b, 1)
          /\ mem'[fit + b - DSIZE] = PACK(b, 1)
          /\ mem'[GET_HEADER(fit + b)] = PACK(S - b, 0)
          /\ mem'[fit + S - DSIZE] = PACK(S - b, 0)
          /\ <<mem'[Slot(get_size_class(S - b))],
               mem'[Slot(get_size_class(S - b)) + WSIZE]>> = Ptr(fit + b)
          /\ Entries(get_size_class(S - b))' # <<>>
          /\ Head(Entries(get_size_class(S - b))') = fit + b
     ELSE /\ mem'[GET_HEADER(fit)] = PACK(S, 1)
          /\ mem'[fit + S - DSIZE] = PACK(S, 1)
          /\ Blocks' = Blocks
          /\ \A i \in Classes : Entries(i)' = Without(Entries(i), {fit})

\* C14: with a candidate of size S for a block of size b, if S - b >= 16 the
\* returned block has size b and is allocated, a free block of size S - b
\* follows it and is inserted under the class of S - b, and the candidate's
\* old entry is gone; if S - b < 16 the whole candidate is allocated and
\* removed and no block is created.
C14_SplitPolicy ==
  [][\A size \in Sizes :
       call'.size = size /\ call'.path \in {"split", "whole"} /\ Malloc(size)
         => \A fit \in {get_fit(Heap, block_size_of(size))} :
              Carved(fit, SizeOf(mem[GET_HEADER(fit)]), block_size_of(size))]_vars

\* the block sizes get_fit is asked for here
FitSizes == {block_size_of(size) : size \in Sizes} \cup {4 * DSIZE, 64}

\* the first entry of seq that is free and holds size bytes (NULL: none)
RECURSIVE FirstIn(_, _)
FirstIn(seq, size) ==
  IF seq = <<>> THEN NULL
  ELSE IF AllocOf(mem[GET_HEADER(Head(seq))]) = 0
          /\ SizeOf(mem[GET_HEADER(Head(seq))]) >= size
       THEN Head(seq)
       ELSE FirstIn(Tail(seq), size)

\* the first such entry of the lists of the classes i .. 7, in this order
RECURSIVE FirstFrom(_, _)
FirstFrom(i, size) ==
  IF i >= SEG_LIST_COUNT THEN NULL
  ELSE IF FirstIn(Entries(i), size) # NULL THEN FirstIn(Entries(i), size)
  ELSE FirstFrom(i + 1, size)

\* C15: get_fit(b) returns the first block, in the order of the classes from
\* min(b / 64, 7) up to 7 and of each list from head to tail, that is free
\* and has size >= b, and reports no fit only if none of them qualifies.
\* Insertion being at the head, a block just inserted is the one chosen among
\* the qualifying blocks of its class.
C15_Finds ==
  status = "ok"
    => \A b \in FitSizes :
         get_fit(Heap, b) = FirstFrom(IF b \div 64 < 7 THEN b \div 64 ELSE 7, b)
C15_Newest ==
  \A p \in LivePtrs :
    call'.path = "free" /\ status' = "ok" /\ Free(p)
      => \A b \in FitSizes :
           /\ b <= SizeOf(mem'[GET_HEADER(call'.ptr)])
           /\ b \div 64 = SizeOf(mem'[GET_HEADER(call'.ptr)]) \div 64
           => get_fit(Heap', b) = call'.ptr
InitClass == InitFor(HeapUnits + 3, {0}, MaxCalls + 1)
NextClass == NextFor(Sizes, {64})
SpecClass == InitClass /\ [][NextClass]_vars

\* C16: between calls every block reachable from the head of list i has a
\* header size s with min(s / 64, 7) = i; a block whose size has changed by
\* a split or a merge is not left in the list of its old class.
C16_SizeClass ==
  status = "ok"
    => \A i \in Classes : \A k \in DOMAIN Entries(i) :
         (IF SizeOf(mem[GET_HEADER(Entries(i)[k])]) \div 64 < 7
          THEN SizeOf(mem[GET_HEADER(Entries(i)[k])]) \div 64 ELSE 7) = i

\* block b is an entry of a list of heap h
InIndex(h, b) ==
  \E i \in Classes :
    \E k \in DOMAIN ListFrom(h, GET_PTR_ADDR(h, Slot(i)), MaxWalk + 1) :
      ListFrom(h, GET_PTR_ADDR(h, Slot(i)), MaxWalk + 1)[k] = b

\* C17: a block that leaves the lists (the candidate that is split, the
\* candidate taken whole, the predecessor and the successor that a release
\* merges) has left them before its header or footer is written.
C17_RemoveBeforeWrite ==
  [][/\ \A size \in Sizes :
          call'.size = size /\ call'.path \in {"split", "whole"} /\ Malloc(size)
            => \A fit \in {get_fit(Heap, block_size_of(size))} :
                 ~InIndex(malloc_fit_tagged(Heap, fit,
                            GET_SIZE(Heap, GET_HEADER(fit)) - block_size_of(size)),
                          fit)
     /\ \A p \in LivePtrs :
          call'.path = "free" /\ Free(p)
            => /\ prev_elig(Heap, p)
                    => ~InIndex(coalesce_unlinked(Heap, p), GET_PREV(Heap, p))
               /\ next_elig(Heap, p)
                    => ~InIndex(coalesce_unlinked(Heap, p), GET_NEXT(Heap, p))]_vars

\* bs is the smallest multiple of 8 that is at least size + 8, size and bs as
\* size_t values: bs is not below size, and it exceeds it by 8 .. 15
Rounded(size, bs) ==
  /\ ~ULT(bs, size)
  /\ bs - size \in DSIZE .. (2 * DSIZE - 1)
  /\ bs % ALIGNMENT = 0
  /\ ~ULT(bs, MIN_BLOCK_SIZE)

\* C18: for every request size > 0 the block size mm_malloc computes is the
\* smallest multiple of 8 that is at least size + 8, and at least 16, without
\* wrapping near SIZE_MAX, and the size it stores in the 32 bit tag is that
\* block size.
C18_BlockSize ==
  [][\A size \in Sizes :
       call'.size = size /\ size # 0 /\ Malloc(size)
         => /\ Rounded(size, block_size_of(size))
            /\ call'.path \in {"split", "grow"} /\ status' = "ok"
                 => SizeOf(mem'[GET_HEADER(call'.ptr)]) = block_size_of(size)]_vars

\* the word at a lies in the extent the provider has handed out so far
InExtent(a, brk) == a >= mem_start_brk /\ a + WSIZE <= brk

\* C19: every byte the allocator writes lies inside the extent obtained from
\* the provider so far: after mm_init the header and the footer of the
\* boundary block lie within the first extent, and after each growth the
\* footer of the new last block lies below the provider's new end.
C19_BoundaryInside ==
  call.path = "init"
    => /\ InExtent(GET_HEADER(mem_hp), mem_brk)
       /\ InExtent(GET_FOOTER(Heap, mem_hp), mem_brk)
C19_WritesInside ==
  call'.path # "fill" /\ status' = "ok"
    => \A a \in Addrs : mem'[a] # mem[a] => InExtent(a, mem_brk')
C19_Extent == [](C19_BoundaryInside) /\ [][C19_WritesInside]_vars

\* C20: resize(p, m), p not null and m > 0, that cannot get a new block
\* returns null, and the block at p stays allocated with its size and its
\* content; no list and no bound of the heap changes.
C20_ResizeFails ==
  [][\A p \in LivePtrs : \A size \in Sizes :
       call'.path = "keep" /\ status' = "ok" /\ size # 0 /\ Realloc(p, size)
         => /\ call'.ptr = NULL
            /\ mem'[GET_HEADER(p)] = mem[GET_HEADER(p)]
            /\ UNCHANGED <<mem, mem_brk, mem_max, mem_bp, live>>]_vars
\* a resize has just failed for want of room and the caller still holds an
\* allocated block
C20_Witness ==
  /\ status = "ok" /\ call.path = "keep" /\ call.size # 0 /\ call.ptr = NULL
  /\ \E l \in live : GET_ALLOC(Heap, GET_HEADER(l.ptr)) = 1

====
